---- MODULE Spec2Model ----
(***************************************************************************)
(* Model of the batch-dispatch agent layer of doctranslate:                *)
(*   - utils/json_utils.py   segments2json_chunks (the chunk codec)        *)
(*   - agents/agent.py       Agent.send / send_async (retry state machine) *)
(*                           Agent.send_prompts / send_prompts_async       *)
(*   - agents/segments_agent.py  SegmentsTranslateAgent                    *)
(*                                                                         *)
(* A text is a sequence of characters.  The alphabet has an ASCII letter   *)
(* "a" and the line feed "\n"; json.dumps writes the first as one byte and *)
(* the second as the two bytes of its escape.                              *)
(***************************************************************************)
EXTENDS Integers, Sequences, FiniteSets, TLC

\* ---------------------------------------------------------------- bounds
\* a segment list has at most MaxSegs segments and MaxTotalLen characters in all
MaxSegs == 3
MaxTotalLen == 4
MinChunkSize == 8
MaxChunkSize == 20
MaxPrompts == 2
MaxRetry == 2
MaxConcurrent == 2
\* TotalErrorCounter.count is never decreased: a further batch is started on
\* the agent only while count <= MaxCarried
MaxCarried == 1
\* the endpoint fails at most MaxFaults attempts of one batch
MaxFaults == 3
\* the endpoint reports at most MaxTokens prompt and completion tokens
MaxTokens == 1
\* send_segments: the segment lists, retry counts and failed attempts of a run
SegMaxSegs == 2
SegMaxTotalLen == 3
SegMaxRetry == 1
SegMaxFaults == 2
\* glossary extraction: the chunk results of a run and the entries of one
MaxGlossaryChunks == 2
MaxEntries == 2
\* the pool threads followed step by step, and the retries they are given
MaxThreads == 2
LockMaxRetry == 1
\* segments of many lines: a segment has at most MaxLines line feeds
MaxLines == 11

\* agent.py line 20
MAX_REQUESTS_PER_ERROR == 15

Alphabet == {"a", "\n"}

RECURSIVE TextsOfLen(_)
TextsOfLen(n) ==
  IF n = 0 THEN {<<>>}
  ELSE {Append(t, c) : t \in TextsOfLen(n - 1), c \in Alphabet}

TextsUpTo(n) == UNION {TextsOfLen(k) : k \in 0..n}

\* the lists of exactly k texts with at most `budget` characters in all
RECURSIVE ListsOf(_, _)
ListsOf(k, budget) ==
  IF k = 0 THEN {<<>>}
  ELSE UNION {{<<t>> \o l : l \in ListsOf(k - 1, budget - Len(t))} : t \in TextsUpTo(budget)}

SegmentLists == UNION {ListsOf(k, MaxTotalLen) : k \in 0..MaxSegs}

ChunkSizes == MinChunkSize..MaxChunkSize

\* ------------------------------------------------- json_utils.py helpers

\* len(str(n)) for a non-negative integer n
RECURSIVE StrLen(_)
StrLen(n) == IF n < 10 THEN 1 ELSE 1 + StrLen(n \div 10)

\* bytes that json.dumps(..., ensure_ascii=False).encode('utf-8') writes
\* for one character inside a string literal
CharBytes(c) == IF c = "\n" THEN 2 ELSE 1

RECURSIVE TextBytes(_)
TextBytes(t) == IF t = <<>> THEN 0 ELSE CharBytes(Head(t)) + TextBytes(Tail(t))

\* one `"key": "value"` member; the key is an integer written by str()
MemberBytes(key, val) == (StrLen(key) + 2) + 2 + (TextBytes(val) + 2)

\* get_json_size: a dict is the sequence of its <<key, value>> members in
\* insertion order; json.dumps separates members by ", "
RECURSIVE MembersBytes(_)
MembersBytes(js) ==
  IF js = <<>> THEN 0
  ELSE MemberBytes(Head(js)[1], Head(js)[2])
       + (IF Len(js) > 1 THEN 2 ELSE 0) + MembersBytes(Tail(js))

get_json_size(js) == 2 + MembersBytes(js)

\* str.splitlines() without keepends: the line feeds are dropped
RECURSIVE SplitFromNoEnds(_, _)
SplitFromNoEnds(t, cur) ==
  IF t = <<>> THEN (IF cur = <<>> THEN <<>> ELSE <<cur>>)
  ELSE IF Head(t) = "\n" THEN <<cur>> \o SplitFromNoEnds(Tail(t), <<>>)
  ELSE SplitFromNoEnds(Tail(t), Append(cur, Head(t)))

splitlines_no_keepends(t) == SplitFromNoEnds(t, <<>>)

\* str.splitlines(keepends=True): a line ends after each line feed
RECURSIVE SplitFrom(_, _)
SplitFrom(t, cur) ==
  IF t = <<>> THEN (IF cur = <<>> THEN <<>> ELSE <<cur>>)
  ELSE IF Head(t) = "\n" THEN <<Append(cur, Head(t))>> \o SplitFrom(Tail(t), <<>>)
  ELSE SplitFrom(Tail(t), Append(cur, Head(t)))

splitlines(t) == SplitFrom(t, <<>>)

\* "".join(parts)
RECURSIVE Join(_)
Join(parts) == IF parts = <<>> THEN <<>> ELSE Head(parts) \o Join(Tail(parts))

\* ------------------------------------- segments2json_chunks, part 1

\* the inner `for line in lines` loop; st = [subs, cur]
RECURSIVE SplitLoop(_, _, _, _)
SplitLoop(lines, key, max, st) ==
  IF lines = <<>> THEN st
  ELSE LET line == Head(lines)
           next_sub_segment == st.cur \o line
       IN IF get_json_size(<<<<key, next_sub_segment>>>>) > max
          THEN SplitLoop(Tail(lines), key, max,
                 [subs |-> (IF st.cur # <<>> THEN Append(st.subs, st.cur) ELSE st.subs)
                           \o <<line>>,
                  cur |-> <<>>])
          ELSE SplitLoop(Tail(lines), key, max,
                 [subs |-> st.subs, cur |-> next_sub_segment])

\* the sub_segments of one oversized segment
SubSegments(segment, key, max) ==
  LET st == SplitLoop(splitlines(segment), key, max, [subs |-> <<>>, cur |-> <<>>])
      s1 == IF st.cur # <<>> THEN Append(st.subs, st.cur) ELSE st.subs
  IN IF s1 = <<>> /\ segment = <<>> THEN <<<<>>>> ELSE s1

\* an outer loop that records the range of every segment it measured as
\* oversized, also when the segment gave one sub-segment
RECURSIVE PreprocessRecordsSingles(_, _, _, _)
PreprocessRecordsSingles(rest, total, max, acc) ==
  IF rest = <<>> THEN acc
  ELSE LET segment == Head(rest)
           long_key_estimate == total + Len(acc.new_segments)
       IN IF get_json_size(<<<<long_key_estimate, segment>>>>) > max
          THEN LET sub_segments == SubSegments(segment, long_key_estimate, max)
                   start_index == Len(acc.new_segments)
                   end_index == start_index + Len(sub_segments)
               IN PreprocessRecordsSingles(Tail(rest), total, max,
                    [new_segments |-> acc.new_segments \o sub_segments,
                     merged |-> Append(acc.merged, <<start_index, end_index>>)])
          ELSE PreprocessRecordsSingles(Tail(rest), total, max,
                    [new_segments |-> Append(acc.new_segments, segment),
                     merged |-> acc.merged])

\* the outer `for segment in segments` loop; acc = [new_segments, merged]
RECURSIVE Preprocess(_, _, _, _)
Preprocess(rest, total, max, acc) ==
  IF rest = <<>> THEN acc
  ELSE LET segment == Head(rest)
           long_key_estimate == total + Len(acc.new_segments)
       IN IF get_json_size(<<<<long_key_estimate, segment>>>>) > max
          THEN LET sub_segments == SubSegments(segment, long_key_estimate, max)
                   start_index == Len(acc.new_segments)
                   end_index == start_index + Len(sub_segments)
               IN Preprocess(Tail(rest), total, max,
                    [new_segments |-> acc.new_segments \o sub_segments,
                     merged |-> IF end_index - start_index > 1
                                THEN Append(acc.merged, <<start_index, end_index>>)
                                ELSE acc.merged])
          ELSE Preprocess(Tail(rest), total, max,
                    [new_segments |-> Append(acc.new_segments, segment),
                     merged |-> acc.merged])

\* ------------------------------------- segments2json_chunks, part 2

\* a packing loop that measures the candidate alone, not the chunk with it
RECURSIVE PackLoopCandidateOnly(_, _, _, _)
PackLoopCandidateOnly(new_segments, key, max, st) ==
  IF key >= Len(new_segments) THEN st
  ELSE LET val == new_segments[key + 1]
           prospective_chunk == Append(st.chunk, <<key, val>>)
       IN IF get_json_size(<<<<key, val>>>>) > max /\ st.chunk # <<>>
          THEN PackLoopCandidateOnly(new_segments, key + 1, max,
                 [chunks |-> Append(st.chunks, st.chunk), chunk |-> <<<<key, val>>>>])
          ELSE PackLoopCandidateOnly(new_segments, key + 1, max,
                 [chunks |-> st.chunks, chunk |-> prospective_chunk])

\* a packing loop that, on overflow, goes on with the prospective chunk
\* instead of a chunk of the candidate alone
RECURSIVE PackLoopKeepsProspective(_, _, _, _)
PackLoopKeepsProspective(new_segments, key, max, st) ==
  IF key >= Len(new_segments) THEN st
  ELSE LET val == new_segments[key + 1]
           prospective_chunk == Append(st.chunk, <<key, val>>)
       IN IF get_json_size(prospective_chunk) > max /\ st.chunk # <<>>
          THEN PackLoopKeepsProspective(new_segments, key + 1, max,
                 [chunks |-> Append(st.chunks, st.chunk), chunk |-> prospective_chunk])
          ELSE PackLoopKeepsProspective(new_segments, key + 1, max,
                 [chunks |-> st.chunks, chunk |-> prospective_chunk])

\* the packing loop over enumerate(new_segments); key is the 0-based index,
\* st = [chunks, chunk]
RECURSIVE PackLoop(_, _, _, _)
PackLoop(new_segments, key, max, st) ==
  IF key >= Len(new_segments) THEN st
  ELSE LET val == new_segments[key + 1]
           prospective_chunk == Append(st.chunk, <<key, val>>)
       IN IF get_json_size(prospective_chunk) > max /\ st.chunk # <<>>
          THEN PackLoop(new_segments, key + 1, max,
                 [chunks |-> Append(st.chunks, st.chunk), chunk |-> <<<<key, val>>>>])
          ELSE PackLoop(new_segments, key + 1, max,
                 [chunks |-> st.chunks, chunk |-> prospective_chunk])

\* the whole function: [js, chunks, merged]; js is the id -> text map, kept
\* as the sequence new_segments (id i is element i + 1)
segments2json_chunks(segments, max) ==
  LET pre == Preprocess(segments, Len(segments), max,
                        [new_segments |-> <<>>, merged |-> <<>>])
      st == PackLoop(pre.new_segments, 0, max, [chunks |-> <<>>, chunk |-> <<>>])
  IN IF pre.new_segments = <<>>
     THEN [js |-> <<>>, chunks |-> <<>>, merged |-> <<>>]
     ELSE [js |-> pre.new_segments,
           chunks |-> IF st.chunk # <<>> THEN Append(st.chunks, st.chunk) ELSE st.chunks,
           merged |-> pre.merged]

\* send_segments, lines 164-168: the members of one result chunk are written
\* over indexed_translated; a key that is not in it is ignored
RECURSIVE MergeChunk(_, _)
MergeChunk(indexed, chunk) ==
  IF chunk = <<>> THEN indexed
  ELSE LET key == Head(chunk)[1]
           val == Head(chunk)[2]
       IN MergeChunk(IF key + 1 \in DOMAIN indexed
                     THEN [indexed EXCEPT ![key + 1] = val] ELSE indexed,
                     Tail(chunk))

\* send_segments, lines 158-172: the loop over translated_chunks
RECURSIVE MergeChunks(_, _)
MergeChunks(indexed, chunks) ==
  IF chunks = <<>> THEN indexed
  ELSE MergeChunks(MergeChunk(indexed, Head(chunks)), Tail(chunks))

\* a rebuild that forgets to move last_end past a merged range
RECURSIVE RebuildKeepsLastEnd(_, _, _)
RebuildKeepsLastEnd(ls, ranges, last_end) ==
  IF ranges = <<>> THEN SubSeq(ls, last_end + 1, Len(ls))
  ELSE LET start == Head(ranges)[1]
           end == Head(ranges)[2]
       IN SubSeq(ls, last_end + 1, start)
          \o <<Join(SubSeq(ls, start + 1, end))>>
          \o RebuildKeepsLastEnd(ls, Tail(ranges), last_end)

\* send_segments, lines 174-185: rebuild the final list from the values of
\* indexed_translated (ls) and the merge ranges
RECURSIVE Rebuild(_, _, _)
Rebuild(ls, ranges, last_end) ==
  IF ranges = <<>> THEN SubSeq(ls, last_end + 1, Len(ls))
  ELSE LET start == Head(ranges)[1]
           end == Head(ranges)[2]
       IN SubSeq(ls, last_end + 1, start)
          \o <<Join(SubSeq(ls, start + 1, end))>>
          \o Rebuild(ls, Tail(ranges), end)

\* ======================================================== agents/agent.py

VARIABLES
  segments,               \* send_segments: the caller's segment list
  chunk_size,             \* send_segments: chunk_size / chunk_size_max
  coded,                  \* what segments2json_chunks returned
  final,                  \* what send_segments returned
  variant,                \* "sync" (send_prompts) or "async" (send_prompts_async)
  prompts,                \* the prompt list of the running batch
  error_result_handler,   \* "None", "caller" (some handler of the caller's) or "segments"
  retry,                  \* Agent.retry (AgentConfig.retry)
  max_concurrent,         \* Agent.max_concurrent
  count,                  \* TotalErrorCounter.count
  max_errors_count,       \* TotalErrorCounter.max_errors_count
  unresolved_error_count, \* Agent.unresolved_error_count
  phase,                  \* where the batch call is
  pc,                     \* per request: where its send / send_async is
  retry_count,            \* per request: argument retry_count of the current attempt
  best_partial_result,    \* per request: argument best_partial_result
  future,                 \* per request: the value its send returned
  permits,                \* free semaphore permits / idle pool workers
  results,                \* the list the batch call returned
  hard_errors,            \* history: the request has suffered a hard error
  adds,                   \* history: TotalErrorCounter.add() calls of each request
  ended_by,               \* history: the return statement each request left by
  overtaken,              \* history: a request ended before one created earlier
  last_partial,           \* history: per request, the attempt that last raised PartialAgentResultError
  faults,                 \* number of failed attempts the endpoint caused in this batch
  token_counter,          \* Agent.token_counter: the five sums of TokenCounter
  usages,                 \* the usage envelopes the endpoint puts in its responses
  extraction_failed,      \* history: extract_token_info returned the -1 sentinel in this batch
  token_summary,          \* what the batch logged about tokens when it ended
  sync_run,               \* the requests of a batch as send / send_prompts run them
  async_run,              \* the same requests as send_async / send_prompts_async run them
  received,               \* _result_handler: [result, origin_prompt] of the last call
  reconciled,             \* _result_handler: what the last call returned or raised
  threads,                \* per pool thread: where its send is, and what it has loaded
  locks,                  \* the holder of each Lock (0 when free)
  applied,                \* history: the increments each counter was given
  request_of,             \* per request: system_prompt and prompt of its current call of send
  translated_chunks,      \* GlossaryAgent: the chunk results send_prompts handed back
  sync_glossary,          \* what GlossaryAgent.send_segments returned
  async_glossary          \* what GlossaryAgent.send_segments_async returned

codec_vars == <<segments, chunk_size, coded, final>>
config_vars == <<retry, max_concurrent>>
counter_vars == <<count, max_errors_count, unresolved_error_count>>
task_vars == <<pc, retry_count, best_partial_result, future, permits,
               hard_errors, adds, ended_by, overtaken>>
batch_vars == <<variant, prompts, error_result_handler, phase, results>>
env_vars == <<faults>>
hist_vars == <<last_partial>>
token_vars == <<token_counter, usages, extraction_failed, token_summary>>
twin_vars == <<sync_run, async_run>>
recon_vars == <<received, reconciled>>
lock_vars == <<threads, locks, applied>>
request_vars == <<request_of>>
glossary_vars == <<translated_chunks, sync_glossary, async_glossary>>
vars == <<codec_vars, config_vars, counter_vars, task_vars, batch_vars, env_vars,
          hist_vars, token_vars, twin_vars, recon_vars, lock_vars, request_vars, glossary_vars>>

None == [kind |-> "none"]

\* no glossary is being extracted
NoGlossary ==
  /\ translated_chunks = <<>>
  /\ sync_glossary = None
  /\ async_glossary = None

\* no pool thread is followed step by step
NoThreads ==
  /\ threads = <<>>
  /\ locks = [total_error_counter |-> 0, token_counter |-> 0, unresolved_error |-> 0]
  /\ applied = [count |-> 0, total_tokens |-> 0, unresolved_error_count |-> 0]

\* the values a request can return
Content(p) == [kind |-> "content", prompt |-> p]
PartialOf(p, k) == [kind |-> "partial", prompt |-> p, attempt |-> k]
Handled(p) == [kind |-> "handled", prompt |-> p]
RawPrompt(p) == [kind |-> "prompt", prompt |-> p]

\* what one HTTP attempt can end in (send_async lines 324-380):
\*   ok             2xx, envelope and usage well formed, validator accepts
\*   invalid        validator raises AgentResultError
\*   partial        validator raises PartialAgentResultError
\*   http_status    raise_for_status raises httpx.HTTPStatusError
\*   request_error  httpx.RequestError (transport)
\*   format_error   KeyError / IndexError / ValueError (missing field, non-JSON body)
\*   type_error     TypeError / AttributeError (a null or wrongly typed field such
\*                  as "choices": null or "usage": null); no except clause names it
Outcomes == {"ok", "invalid", "partial", "http_status", "request_error",
             "format_error", "type_error"}
HardOutcomes == {"http_status", "request_error", "format_error"}

InFlight == {"sent", "sleeping"}
Ended == {"done", "raised", "cancelled"}

Tasks == 1..Len(prompts)

\* TotalErrorCounter.reach_limit
reach_limit(c, max) == c > max

\* TotalErrorCounter.add: the new count and the returned flag
TotalErrorCounter_add(c, max) == [count |-> c + 1, reached |-> reach_limit(c + 1, max)]

\* truthiness test `if best_partial_result`: None and the empty dict are false
Truthy(v) == v # None /\ ~(v.kind = "dict" /\ v.body = <<>>)

\* SegmentsTranslateAgent._error_result_handler: the chunk of the prompt with
\* every value as a string (a prompt of send_segments is never empty and is
\* always the JSON text of a chunk)
_error_result_handler(origin_prompt) == [kind |-> "dict", body |-> origin_prompt]

\* error_result_handler(prompt, self.logger)
ApplyErrorHandler(handler, prompt) ==
  IF handler = "segments" THEN _error_result_handler(prompt) ELSE Handled(prompt)

\* a fallback that asks the error handler before it looks at the partial result
FallbackHandlerFirst(best, handler, prompt) ==
  IF handler # "None" THEN ApplyErrorHandler(handler, prompt)
  ELSE IF Truthy(best) THEN best ELSE RawPrompt(prompt)

\* the fallback expression of lines 394-402, 408-416 and 438-446
Fallback(best, handler, prompt) ==
  IF Truthy(best) THEN best
  ELSE IF handler # "None" THEN ApplyErrorHandler(handler, prompt) ELSE RawPrompt(prompt)

\* send_prompts_async line 465-472 / send_prompts line 709-716: what the start
\* of a batch does to the counters
ResetCounters(c, n) ==
  [count |-> c, max_errors_count |-> n \div MAX_REQUESTS_PER_ERROR, unresolved |-> 0]

\* asyncio.gather(*tasks) / list(executor.map(...)): the results in task order
Gather(fut) == [i \in 1..Len(fut) |-> fut[i]]

NumEnded == Cardinality({j \in Tasks : pc[j] \in Ended})

\* a scheduler that appends each value to one shared list when its request ends
EndRequestAsCompleted(i, v) ==
  /\ pc' = [pc EXCEPT ![i] = "done"]
  /\ future' = [future EXCEPT ![NumEnded + 1] = v]
  /\ permits' = permits + 1
  /\ overtaken' = (overtaken \/ \E j \in 1..(i - 1) : pc[j] \notin Ended)

\* the request ends with value v: the value becomes the result of task i and
\* the semaphore / worker is released
EndRequest(i, v) ==
  /\ pc' = [pc EXCEPT ![i] = "done"]
  /\ future' = [future EXCEPT ![i] = v]
  /\ permits' = permits + 1
  /\ overtaken' = (overtaken \/ \E j \in 1..(i - 1) : pc[j] \notin Ended)

\* a retry that passes on the best_partial_result it was called with
RetryingWithoutNewPartial(i, best) ==
  /\ pc' = [pc EXCEPT ![i] = "sleeping"]
  /\ best_partial_result' = best_partial_result
  /\ UNCHANGED <<future, permits, overtaken>>

\* the request goes to sleep(0.5) before its next attempt
Retrying(i, best) ==
  /\ pc' = [pc EXCEPT ![i] = "sleeping"]
  /\ best_partial_result' = [best_partial_result EXCEPT ![i] = best]
  /\ UNCHANGED <<future, permits, overtaken>>

\* the request ends by `return` number `how` with value v
Leave(i, how, v, best) ==
  /\ EndRequest(i, v)
  /\ best_partial_result' = [best_partial_result EXCEPT ![i] = best]
  /\ ended_by' = [ended_by EXCEPT ![i] = how]

\* a request that goes on while retry_count <= self.retry
AfterFailureRetriesOnceMore(i, is_hard_error, current_partial_result) ==
  LET best == IF Truthy(current_partial_result) THEN current_partial_result
              ELSE best_partial_result[i]
      fb == Fallback(best, error_result_handler, prompts[i])
      a == TotalErrorCounter_add(count, max_errors_count)
  IN /\ hard_errors' = [hard_errors EXCEPT ![i] = @ \/ is_hard_error]
     /\ UNCHANGED max_errors_count
     /\ IF retry_count[i] <= retry
        THEN IF is_hard_error /\ retry_count[i] = 0
             THEN /\ count' = a.count
                  /\ adds' = [adds EXCEPT ![i] = @ + 1]
                  /\ IF a.reached
                     THEN /\ unresolved_error_count' = unresolved_error_count + 1
                          /\ Leave(i, "tripped_first", fb, best)
                     ELSE /\ Retrying(i, best)
                          /\ UNCHANGED <<unresolved_error_count, ended_by>>
             ELSE IF is_hard_error /\ reach_limit(count, max_errors_count)
             THEN /\ unresolved_error_count' = unresolved_error_count + 1
                  /\ Leave(i, "tripped_retry", fb, best)
                  /\ UNCHANGED <<count, adds>>
             ELSE /\ Retrying(i, best)
                  /\ UNCHANGED <<count, adds, unresolved_error_count, ended_by>>
        ELSE /\ unresolved_error_count' = unresolved_error_count + 1
             /\ Leave(i, "exhausted", fb, best)
             /\ UNCHANGED <<count, adds>>

\* a request that counts every failed first attempt, soft or hard
AfterFailureCountsEveryError(i, is_hard_error, current_partial_result) ==
  LET best == IF Truthy(current_partial_result) THEN current_partial_result
              ELSE best_partial_result[i]
      fb == Fallback(best, error_result_handler, prompts[i])
      a == TotalErrorCounter_add(count, max_errors_count)
  IN /\ hard_errors' = [hard_errors EXCEPT ![i] = @ \/ is_hard_error]
     /\ UNCHANGED max_errors_count
     /\ IF retry_count[i] < retry
        THEN IF retry_count[i] = 0
             THEN /\ count' = a.count
                  /\ adds' = [adds EXCEPT ![i] = @ + 1]
                  /\ IF a.reached
                     THEN /\ unresolved_error_count' = unresolved_error_count + 1
                          /\ Leave(i, "tripped_first", fb, best)
                     ELSE /\ Retrying(i, best)
                          /\ UNCHANGED <<unresolved_error_count, ended_by>>
             ELSE IF is_hard_error /\ reach_limit(count, max_errors_count)
             THEN /\ unresolved_error_count' = unresolved_error_count + 1
                  /\ Leave(i, "tripped_retry", fb, best)
                  /\ UNCHANGED <<count, adds>>
             ELSE /\ Retrying(i, best)
                  /\ UNCHANGED <<count, adds, unresolved_error_count, ended_by>>
        ELSE /\ unresolved_error_count' = unresolved_error_count + 1
             /\ Leave(i, "exhausted", fb, best)
             /\ UNCHANGED <<count, adds>>

\* the steps after a failed attempt without the increment of lines 435-436
AfterFailureSilentExhaustion(i, is_hard_error, current_partial_result) ==
  LET best == IF Truthy(current_partial_result) THEN current_partial_result
              ELSE best_partial_result[i]
      fb == Fallback(best, error_result_handler, prompts[i])
      a == TotalErrorCounter_add(count, max_errors_count)
  IN /\ hard_errors' = [hard_errors EXCEPT ![i] = @ \/ is_hard_error]
     /\ UNCHANGED max_errors_count
     /\ IF retry_count[i] < retry
        THEN IF is_hard_error /\ retry_count[i] = 0
             THEN /\ count' = a.count
                  /\ adds' = [adds EXCEPT ![i] = @ + 1]
                  /\ IF a.reached
                     THEN /\ unresolved_error_count' = unresolved_error_count + 1
                          /\ Leave(i, "tripped_first", fb, best)
                     ELSE /\ Retrying(i, best)
                          /\ UNCHANGED <<unresolved_error_count, ended_by>>
             ELSE IF is_hard_error /\ reach_limit(count, max_errors_count)
             THEN /\ unresolved_error_count' = unresolved_error_count + 1
                  /\ Leave(i, "tripped_retry", fb, best)
                  /\ UNCHANGED <<count, adds>>
             ELSE /\ Retrying(i, best)
                  /\ UNCHANGED <<count, adds, unresolved_error_count, ended_by>>
        ELSE /\ Leave(i, "exhausted", fb, best)
             /\ UNCHANGED <<count, adds, unresolved_error_count>>

\* send_async lines 382-446 / send lines 608-672: what follows a failed attempt
\* (should_retry is True; `retry` is True in every call a batch makes)
AfterFailure(i, is_hard_error, current_partial_result) ==
  LET best == IF Truthy(current_partial_result) THEN current_partial_result
              ELSE best_partial_result[i]
      fb == Fallback(best, error_result_handler, prompts[i])
      a == TotalErrorCounter_add(count, max_errors_count)
  IN /\ hard_errors' = [hard_errors EXCEPT ![i] = @ \/ is_hard_error]
     /\ UNCHANGED max_errors_count
     /\ IF retry_count[i] < retry
        THEN IF is_hard_error /\ retry_count[i] = 0
             THEN /\ count' = a.count
                  /\ adds' = [adds EXCEPT ![i] = @ + 1]
                  /\ IF a.reached
                     THEN /\ unresolved_error_count' = unresolved_error_count + 1
                          /\ Leave(i, "tripped_first", fb, best)
                     ELSE /\ Retrying(i, best)
                          /\ UNCHANGED <<unresolved_error_count, ended_by>>
             ELSE IF is_hard_error /\ reach_limit(count, max_errors_count)
             THEN /\ unresolved_error_count' = unresolved_error_count + 1
                  /\ Leave(i, "tripped_retry", fb, best)
                  /\ UNCHANGED <<count, adds>>
             ELSE /\ Retrying(i, best)
                  /\ UNCHANGED <<count, adds, unresolved_error_count, ended_by>>
        ELSE /\ unresolved_error_count' = unresolved_error_count + 1
             /\ Leave(i, "exhausted", fb, best)
             /\ UNCHANGED <<count, adds>>

\* a success that sets the hard-error count back to zero
AfterSuccessClearsBudget(i, v) ==
  /\ Leave(i, "success", v, best_partial_result[i])
  /\ count' = 0
  /\ UNCHANGED <<max_errors_count, unresolved_error_count, hard_errors, adds>>

\* lines 331-354: the attempt succeeds and the value is returned
AfterSuccess(i, v) ==
  /\ Leave(i, "success", v, best_partial_result[i])
  /\ UNCHANGED <<counter_vars, hard_errors, adds>>

\* an exception that no except clause of send / send_async names leaves the
\* request; `async with semaphore` / the pool worker is released
AfterUncaught(i) ==
  /\ pc' = [pc EXCEPT ![i] = "raised"]
  /\ permits' = permits + 1
  /\ ended_by' = [ended_by EXCEPT ![i] = "exception"]
  /\ overtaken' = (overtaken \/ \E j \in 1..(i - 1) : pc[j] \notin Ended)
  /\ UNCHANGED <<counter_vars, future, best_partial_result, hard_errors, adds>>

\* ----------------------------------------------------------- token usage

\* a response without a "usage" member
NoUsage == [kind |-> "absent"]

\* a "usage" member: prompt_tokens, completion_tokens and what stands under
\* prompt_tokens_details: nothing ("none"), an object with cached_tokens
\* ("cached") or null ("null")
UsageObjects ==
  [kind : {"usage"}, prompt_tokens : 0..MaxTokens, completion_tokens : 0..MaxTokens,
   prompt_tokens_details : {"none", "cached", "null"}]

\* the -1 sentinel of extract_token_info
ExtractionFailed == <<-1, -1, -1, -1>>

\* extract_token_info: <<input_tokens, cached_tokens, output_tokens,
\* reasoning_tokens>>; `"cached_tokens" in None` raises the TypeError of line 143
extract_token_info(response_data) ==
  IF response_data.kind = "absent" THEN <<0, 0, 0, 0>>
  ELSE IF response_data.prompt_tokens_details = "null" THEN ExtractionFailed
  ELSE <<response_data.prompt_tokens,
         IF response_data.prompt_tokens_details = "cached"
         THEN response_data.prompt_tokens ELSE 0,
         response_data.completion_tokens,
         0>>

\* TokenCounter.add
TokenCounter_add(tc, t) ==
  [input_tokens |-> tc.input_tokens + t[1],
   cached_tokens |-> tc.cached_tokens + t[2],
   output_tokens |-> tc.output_tokens + t[3],
   reasoning_tokens |-> tc.reasoning_tokens + t[4],
   total_tokens |-> tc.total_tokens + t[1] + t[3]]

\* TokenCounter.reset
TokenCounter_reset ==
  [input_tokens |-> 0, cached_tokens |-> 0, output_tokens |-> 0,
   reasoning_tokens |-> 0, total_tokens |-> 0]

\* TokenCounter.get_stats
get_stats(tc) == tc

\* send_prompts lines 752-761: which of the two log lines is written
TokenSummary(token_stats) ==
  IF token_stats.input_tokens < 0 THEN "extraction_failed" ELSE "counts"

\* the outcomes in which lines 336-344 are reached: the envelope was read, the
\* usage is extracted and added before result_handler is called
CountedOutcomes == {"ok", "invalid", "partial"}

\* lines 336-344 for one response, when the attempt gets that far
CountTokens(counted) ==
  IF counted
  THEN \E u \in usages :
         LET t == extract_token_info(u) IN
         /\ token_counter' = TokenCounter_add(token_counter, t)
         /\ extraction_failed' = (extraction_failed \/ t = ExtractionFailed)
  ELSE UNCHANGED <<token_counter, extraction_failed>>

\* the start of a batch: token_counter.reset(); nothing is logged yet
ResetTokens ==
  /\ token_counter' = TokenCounter_reset
  /\ extraction_failed' = FALSE
  /\ token_summary' = "none"

\* every prompt can meet every outcome on every attempt
OutcomesOf(i) == Outcomes

\* the batch sizes; len(prompts) // MAX_REQUESTS_PER_ERROR is 0 for all of them
BatchSizes == 0..MaxPrompts

Running == phase \in {"running", "draining"}

\* ------------------------------------------------------------- actions

\* the arguments of the call of send / send_async a batch makes for prompt p:
\* system_prompt is None and stands for self.system_prompt; a system prompt
\* is kept as the list of the blocks appended to self.system_prompt
FirstCall(p) == [system_prompt |-> <<>>, prompt |-> p]

\* SegmentsTranslateAgent._pre_send_handler of an agent with a glossary: the
\* glossary block for the prompt is appended to the system prompt
pre_send_handler(system_prompt, prompt) ==
  [system_prompt |-> Append(system_prompt, [glossary_for |-> prompt]), prompt |-> prompt]

\* a call that applies the handler to the arguments of the first call
PrepareRequestFromFirstCall(i) ==
  pre_send_handler(FirstCall(prompts[i]).system_prompt, FirstCall(prompts[i]).prompt)

\* send_async lines 311-317 / send lines 540-546: the handler is applied to
\* the system_prompt and prompt the call was given, and the request is built
\* from what it returns; the retry passes these on (lines 420-430)
PrepareRequest(i) == pre_send_handler(request_of[i].system_prompt, request_of[i].prompt)

\* send_prompts / send_prompts_async up to the dispatch of the tasks
StartBatch ==
  /\ phase \in {"idle", "returned", "raised"}
  /\ count <= MaxCarried
  /\ \E n \in BatchSizes,
        v \in {"sync", "async"}, h \in {"None", "caller"} :
       LET r == ResetCounters(count, n) IN
       /\ prompts' = [i \in 1..n |-> i]
       /\ variant' = v
       /\ error_result_handler' = h
       /\ count' = r.count
       /\ max_errors_count' = r.max_errors_count
       /\ unresolved_error_count' = r.unresolved
       /\ pc' = [i \in 1..n |-> "waiting"]
       /\ retry_count' = [i \in 1..n |-> 0]
       /\ best_partial_result' = [i \in 1..n |-> None]
       /\ future' = [i \in 1..n |-> None]
       /\ hard_errors' = [i \in 1..n |-> FALSE]
       /\ adds' = [i \in 1..n |-> 0]
       /\ ended_by' = [i \in 1..n |-> "none"]
       /\ last_partial' = [i \in 1..n |-> -1]
  /\ permits' = max_concurrent
  /\ overtaken' = FALSE
  /\ results' = <<>>
  /\ phase' = "running"
  /\ faults' = 0
  /\ ResetTokens
  /\ UNCHANGED <<codec_vars, config_vars, usages, twin_vars, recon_vars, lock_vars, glossary_vars>>
  /\ request_of' = [i \in DOMAIN prompts' |-> FirstCall(prompts'[i])]

\* a gate that lets every task through
CanAcquireAlways(p) == TRUE

\* asyncio.Semaphore(max_concurrent).acquire / ThreadPoolExecutor(max_workers):
\* a task gets through only while a permit (an idle worker) is left
CanAcquire(p) == p > 0

\* `async with semaphore` is entered / a pool worker takes the next work item;
\* both serve the tasks in the order they were created.  The request is built
\* and posted.
Acquire(i) ==
  /\ phase = "running"
  /\ pc[i] = "waiting"
  /\ \A j \in 1..(i - 1) : pc[j] # "waiting"
  /\ CanAcquire(permits)
  /\ permits' = permits - 1
  /\ pc' = [pc EXCEPT ![i] = "sent"]
  /\ UNCHANGED <<hist_vars, token_vars, twin_vars, recon_vars, lock_vars, glossary_vars>>
  /\ request_of' = [request_of EXCEPT ![i] = PrepareRequest(i)]
  /\ UNCHANGED <<codec_vars, config_vars, counter_vars, batch_vars, env_vars, retry_count,
                 best_partial_result, future, hard_errors, adds, ended_by, overtaken>>

\* the HTTP call of request i comes back and the attempt is classified
Respond(i) ==
  /\ Running
  /\ pc[i] = "sent"
  /\ \E o \in OutcomesOf(i) :
       /\ o # "ok" => faults < MaxFaults
       /\ faults' = IF o = "ok" THEN faults ELSE faults + 1
       /\ CASE o = "ok" -> AfterSuccess(i, Content(prompts[i]))
           [] o = "invalid" -> AfterFailure(i, FALSE, None)
           [] o = "partial" -> AfterFailure(i, FALSE, PartialOf(prompts[i], retry_count[i]))
           [] o \in HardOutcomes -> AfterFailure(i, TRUE, None)
           [] o = "type_error" -> AfterUncaught(i)
       /\ CountTokens(o \in CountedOutcomes)
       /\ last_partial' = IF o = "partial" THEN [last_partial EXCEPT ![i] = retry_count[i]]
                          ELSE last_partial
  /\ UNCHANGED <<codec_vars, config_vars, batch_vars, retry_count>>
  /\ UNCHANGED <<usages, token_summary, twin_vars, recon_vars, lock_vars, request_vars, glossary_vars>>

\* sleep(0.5) is over: send / send_async calls itself with retry_count + 1
Wake(i) ==
  /\ Running
  /\ pc[i] = "sleeping"
  /\ pc' = [pc EXCEPT ![i] = "sent"]
  /\ retry_count' = [retry_count EXCEPT ![i] = @ + 1]
  /\ UNCHANGED <<hist_vars, token_vars, twin_vars, recon_vars, lock_vars, glossary_vars>>
  /\ request_of' = [request_of EXCEPT ![i] = PrepareRequest(i)]
  /\ UNCHANGED <<codec_vars, config_vars, counter_vars, batch_vars, env_vars,
                 best_partial_result, future, permits, hard_errors, adds,
                 ended_by, overtaken>>

\* every task has a value: gather / list(executor.map) hands the list back
Return ==
  /\ phase = "running"
  /\ \A i \in Tasks : pc[i] = "done"
  /\ results' = Gather(future)
  /\ phase' = "returned"
  /\ token_summary' = TokenSummary(get_stats(token_counter))
  /\ UNCHANGED <<hist_vars, token_counter, usages, extraction_failed, twin_vars, recon_vars, lock_vars, request_vars, glossary_vars>>
  /\ UNCHANGED <<codec_vars, config_vars, counter_vars, task_vars, env_vars, variant, prompts,
                 error_result_handler>>

\* async: gather(return_exceptions=False) re-raises the first exception of a
\* task at once; the other tasks are left where they are
RaiseAsync ==
  /\ phase = "running"
  /\ variant = "async"
  /\ \E i \in Tasks : pc[i] = "raised"
  /\ phase' = "raised"
  /\ UNCHANGED <<hist_vars, token_vars, twin_vars, recon_vars, lock_vars, request_vars, glossary_vars>>
  /\ UNCHANGED <<codec_vars, config_vars, counter_vars, task_vars, env_vars, variant, prompts,
                 error_result_handler, results>>

\* sync: list(results_iterator) re-raises when it reaches the first task that
\* raised; the iterator cancels the work items not yet taken and the `with
\* ThreadPoolExecutor` block waits for the workers that are busy
RaiseSync ==
  /\ phase = "running"
  /\ variant = "sync"
  /\ \E i \in Tasks : pc[i] = "raised" /\ \A j \in 1..(i - 1) : pc[j] = "done"
  /\ pc' = [i \in Tasks |-> IF pc[i] = "waiting" THEN "cancelled" ELSE pc[i]]
  /\ phase' = "draining"
  /\ UNCHANGED <<hist_vars, token_vars, twin_vars, recon_vars, lock_vars, request_vars, glossary_vars>>
  /\ UNCHANGED <<codec_vars, config_vars, counter_vars, env_vars, variant, prompts,
                 error_result_handler, results, retry_count, best_partial_result,
                 future, permits, hard_errors, adds, ended_by, overtaken>>

\* sync: the busy workers are through and send_prompts raises
Drained ==
  /\ phase = "draining"
  /\ \A i \in Tasks : pc[i] \in Ended
  /\ phase' = "raised"
  /\ UNCHANGED <<hist_vars, token_vars, twin_vars, recon_vars, lock_vars, request_vars, glossary_vars>>
  /\ UNCHANGED <<codec_vars, config_vars, counter_vars, task_vars, env_vars, variant, prompts,
                 error_result_handler, results>>

\* Agent.__init__: a fresh agent, no batch yet
Init ==
  /\ segments = <<>> /\ chunk_size = 0 /\ coded = None /\ final = None
  /\ retry \in 0..MaxRetry
  /\ max_concurrent \in 1..MaxConcurrent
  /\ count = 0 /\ max_errors_count = 10 /\ unresolved_error_count = 0
  /\ variant = "sync" /\ prompts = <<>> /\ error_result_handler = "None"
  /\ phase = "idle" /\ results = <<>>
  /\ pc = <<>> /\ retry_count = <<>> /\ best_partial_result = <<>> /\ future = <<>>
  /\ permits = 0 /\ hard_errors = <<>> /\ adds = <<>>
  /\ ended_by = <<>> /\ overtaken = FALSE /\ last_partial = <<>>
  /\ faults = 0
  /\ usages = {NoUsage}
  /\ token_counter = [input_tokens |-> 0, cached_tokens |-> 0, output_tokens |-> 0,
                      reasoning_tokens |-> 0, total_tokens |-> 0]
  /\ extraction_failed = FALSE /\ token_summary = "none"
  /\ sync_run = None /\ async_run = None
  /\ received = None /\ reconciled = None
  /\ NoThreads
  /\ request_of = <<>>
  /\ NoGlossary

Next ==
  \/ StartBatch
  \/ \E i \in Tasks : Acquire(i)
  \/ \E i \in Tasks : Respond(i)
  \/ \E i \in Tasks : Wake(i)
  \/ Return
  \/ RaiseAsync
  \/ RaiseSync
  \/ Drained

Spec == Init /\ [][Next]_vars

\* ------------------------------------- batches against a metering endpoint

\* a fresh agent with one retry whose endpoint puts any usage envelope in its
\* responses
TokenInit ==
  /\ segments = <<>> /\ chunk_size = 0 /\ coded = None /\ final = None
  /\ retry = 1
  /\ max_concurrent \in 1..MaxConcurrent
  /\ count = 0 /\ max_errors_count = 10 /\ unresolved_error_count = 0
  /\ variant = "sync" /\ prompts = <<>> /\ error_result_handler = "None"
  /\ phase = "idle" /\ results = <<>>
  /\ pc = <<>> /\ retry_count = <<>> /\ best_partial_result = <<>> /\ future = <<>>
  /\ permits = 0 /\ hard_errors = <<>> /\ adds = <<>>
  /\ ended_by = <<>> /\ overtaken = FALSE /\ last_partial = <<>>
  /\ faults = 0
  /\ usages = {NoUsage} \cup UsageObjects
  /\ token_counter = TokenCounter_reset
  /\ extraction_failed = FALSE /\ token_summary = "none"
  /\ sync_run = None /\ async_run = None
  /\ received = None /\ reconciled = None
  /\ NoThreads
  /\ request_of = <<>>
  /\ NoGlossary

TokenSpec == TokenInit /\ [][Next]_vars

\* ------------------------------------- send and send_async side by side

\* the requests of a batch of n prompts before their first attempt, with the
\* hard-error count c the agent has at that moment
StartRun(n, c) ==
  [count |-> c,
   unresolved_error_count |-> 0,
   retry_count |-> [i \in 1..n |-> 0],
   best_partial_result |-> [i \in 1..n |-> None],
   result |-> [i \in 1..n |-> None],
   returned |-> None]

\* the outcomes send and send_async have an except clause (or no exception) for
TwinOutcomes == Outcomes \ {"type_error"}

\* Agent.send_async, lines 299-446: one attempt of request i that ends in
\* outcome o, up to the return or the recursive call
send_async(run, i, o) ==
  LET retry_count_ == run.retry_count[i]
      prompt == prompts[i]
      should_retry == o \in {"invalid", "partial"} \cup HardOutcomes
      is_hard_error == o \in HardOutcomes
      current_partial_result == IF o = "partial" THEN PartialOf(prompt, retry_count_) ELSE None
      best_partial_result_ == IF Truthy(current_partial_result) THEN current_partial_result
                              ELSE run.best_partial_result[i]
      fallback == IF Truthy(best_partial_result_) THEN best_partial_result_
                  ELSE IF error_result_handler = "None" THEN RawPrompt(prompt)
                  ELSE ApplyErrorHandler(error_result_handler, prompt)
      gave_up == [run EXCEPT !.unresolved_error_count = @ + 1,
                             !.best_partial_result[i] = best_partial_result_,
                             !.result[i] = fallback]
      again == [run EXCEPT !.retry_count[i] = @ + 1,
                           !.best_partial_result[i] = best_partial_result_]
      added == TotalErrorCounter_add(run.count, max_errors_count)
  IN IF ~should_retry THEN [run EXCEPT !.result[i] = Content(prompt)]
     ELSE IF retry_count_ < retry
     THEN IF is_hard_error
          THEN IF retry_count_ = 0
               THEN IF added.reached
                    THEN [gave_up EXCEPT !.count = added.count]
                    ELSE [again EXCEPT !.count = added.count]
               ELSE IF reach_limit(run.count, max_errors_count)
               THEN gave_up
               ELSE again
          ELSE again
     ELSE gave_up

\* a send that counts a hard error on every attempt, not on the first only
send_counts_every_attempt(run, i, o) ==
  LET retry_count_ == run.retry_count[i]
      prompt == prompts[i]
      should_retry == o \in {"invalid", "partial"} \cup HardOutcomes
      is_hard_error == o \in HardOutcomes
      current_partial_result == IF o = "partial" THEN PartialOf(prompt, retry_count_) ELSE None
      best_partial_result_ == IF Truthy(current_partial_result) THEN current_partial_result
                              ELSE run.best_partial_result[i]
      fallback == IF Truthy(best_partial_result_) THEN best_partial_result_
                  ELSE IF error_result_handler = "None" THEN RawPrompt(prompt)
                  ELSE ApplyErrorHandler(error_result_handler, prompt)
      gave_up == [run EXCEPT !.unresolved_error_count = @ + 1,
                             !.best_partial_result[i] = best_partial_result_,
                             !.result[i] = fallback]
      again == [run EXCEPT !.retry_count[i] = @ + 1,
                           !.best_partial_result[i] = best_partial_result_]
      added == TotalErrorCounter_add(run.count, max_errors_count)
  IN IF ~should_retry THEN [run EXCEPT !.result[i] = Content(prompt)]
     ELSE IF retry_count_ < retry
     THEN IF is_hard_error
          THEN IF TRUE
               THEN IF added.reached
                    THEN [gave_up EXCEPT !.count = added.count]
                    ELSE [again EXCEPT !.count = added.count]
               ELSE IF reach_limit(run.count, max_errors_count)
               THEN gave_up
               ELSE again
          ELSE again
     ELSE gave_up

\* Agent.send, lines 528-672: one attempt of request i that ends in outcome o,
\* up to the return or the recursive call
send(run, i, o) ==
  LET retry_count_ == run.retry_count[i]
      prompt == prompts[i]
      should_retry == o \in {"invalid", "partial"} \cup HardOutcomes
      is_hard_error == o \in HardOutcomes
      current_partial_result == IF o = "partial" THEN PartialOf(prompt, retry_count_) ELSE None
      best_partial_result_ == IF Truthy(current_partial_result) THEN current_partial_result
                              ELSE run.best_partial_result[i]
      fallback == IF Truthy(best_partial_result_) THEN best_partial_result_
                  ELSE IF error_result_handler = "None" THEN RawPrompt(prompt)
                  ELSE ApplyErrorHandler(error_result_handler, prompt)
      gave_up == [run EXCEPT !.unresolved_error_count = @ + 1,
                             !.best_partial_result[i] = best_partial_result_,
                             !.result[i] = fallback]
      again == [run EXCEPT !.retry_count[i] = @ + 1,
                           !.best_partial_result[i] = best_partial_result_]
      added == TotalErrorCounter_add(run.count, max_errors_count)
  IN IF ~should_retry THEN [run EXCEPT !.result[i] = Content(prompt)]
     ELSE IF retry_count_ < retry
     THEN IF is_hard_error
          THEN IF retry_count_ = 0
               THEN IF added.reached
                    THEN [gave_up EXCEPT !.count = added.count]
                    ELSE [again EXCEPT !.count = added.count]
               ELSE IF reach_limit(run.count, max_errors_count)
               THEN gave_up
               ELSE again
          ELSE again
     ELSE gave_up

\* an agent and one batch of prompts that is run twice, by send_prompts and by
\* send_prompts_async; the hard-error count may be carried from earlier batches
TwinInit ==
  /\ segments = <<>> /\ chunk_size = 0 /\ coded = None /\ final = None
  /\ retry \in 0..MaxRetry
  /\ max_concurrent = 1
  /\ \E n \in 1..MaxPrompts :
       /\ prompts = [i \in 1..n |-> i]
       /\ max_errors_count = ResetCounters(0, n).max_errors_count
       /\ \E c \in 0..MaxCarried :
            /\ sync_run = StartRun(n, c)
            /\ async_run = StartRun(n, c)
  /\ count = 0 /\ unresolved_error_count = 0
  /\ variant = "sync" /\ error_result_handler \in {"None", "caller"}
  /\ phase = "idle" /\ results = <<>>
  /\ pc = <<>> /\ retry_count = <<>> /\ best_partial_result = <<>> /\ future = <<>>
  /\ permits = 0 /\ hard_errors = <<>> /\ adds = <<>>
  /\ ended_by = <<>> /\ overtaken = FALSE /\ last_partial = <<>>
  /\ faults = 0
  /\ usages = {NoUsage}
  /\ token_counter = TokenCounter_reset
  /\ extraction_failed = FALSE /\ token_summary = "none"
  /\ received = None /\ reconciled = None
  /\ NoThreads
  /\ request_of = <<>>
  /\ NoGlossary

\* the current attempt of request i ends in outcome o, in both runs
Deliver(i, o) ==
  /\ sync_run.returned = None
  /\ sync_run.result[i] = None
  /\ sync_run' = send(sync_run, i, o)
  /\ async_run' = send_async(async_run, i, o)
  /\ UNCHANGED <<codec_vars, config_vars, counter_vars, task_vars, batch_vars, env_vars,
                 hist_vars, token_vars, recon_vars, lock_vars, request_vars, glossary_vars>>

\* every request has its value: list(executor.map(...)) and
\* asyncio.gather(*tasks) hand back the values in prompt order
TwinReturn ==
  /\ sync_run.returned = None
  /\ \A i \in Tasks : sync_run.result[i] # None
  /\ sync_run' = [sync_run EXCEPT !.returned = [kind |-> "list", list |-> Gather(sync_run.result)]]
  /\ async_run' = [async_run EXCEPT !.returned = [kind |-> "list", list |-> Gather(async_run.result)]]
  /\ UNCHANGED <<codec_vars, config_vars, counter_vars, task_vars, batch_vars, env_vars,
                 hist_vars, token_vars, recon_vars, lock_vars, request_vars, glossary_vars>>

TwinNext ==
  \/ \E i \in Tasks, o \in TwinOutcomes : Deliver(i, o)
  \/ TwinReturn

TwinSpec == TwinInit /\ [][TwinNext]_vars

\* ------------------------------------------------ the chunk codec alone

\* no agent takes part
AgentIdle ==
  /\ retry = 0 /\ max_concurrent = 1
  /\ count = 0 /\ max_errors_count = 10 /\ unresolved_error_count = 0
  /\ variant = "sync" /\ prompts = <<>> /\ error_result_handler = "None"
  /\ phase = "idle" /\ results = <<>>
  /\ pc = <<>> /\ retry_count = <<>> /\ best_partial_result = <<>> /\ future = <<>>
  /\ permits = 0 /\ hard_errors = <<>> /\ adds = <<>>
  /\ ended_by = <<>> /\ overtaken = FALSE /\ last_partial = <<>>
  /\ faults = 0
  /\ usages = {NoUsage}
  /\ token_counter = [input_tokens |-> 0, cached_tokens |-> 0, output_tokens |-> 0,
                      reasoning_tokens |-> 0, total_tokens |-> 0]
  /\ extraction_failed = FALSE /\ token_summary = "none"
  /\ sync_run = None /\ async_run = None
  /\ received = None /\ reconciled = None
  /\ NoThreads
  /\ request_of = <<>>
  /\ NoGlossary

agent_vars == <<config_vars, counter_vars, task_vars, batch_vars, env_vars,
                hist_vars, token_vars, twin_vars, recon_vars, lock_vars, request_vars, glossary_vars>>

\* the input of the codec: any segment list and any chunk size
CodecInit ==
  /\ segments \in SegmentLists
  /\ chunk_size \in ChunkSizes
  /\ coded = None
  /\ final = None
  /\ AgentIdle

\* send_segments line 151
Split ==
  /\ coded = None
  /\ coded' = segments2json_chunks(segments, chunk_size)
  /\ UNCHANGED <<segments, chunk_size, final, agent_vars>>

\* send_segments lines 158-185 when every chunk comes back with the text of
\* every id unchanged
Reassemble ==
  /\ coded # None
  /\ final = None
  /\ final' = [kind |-> "segments",
               list |-> Rebuild(MergeChunks(coded.js, coded.chunks), coded.merged, 0)]
  /\ UNCHANGED <<segments, chunk_size, coded, agent_vars>>

CodecNext == Split \/ Reassemble

CodecSpec == CodecInit /\ [][CodecNext]_vars

\* ------------------------------------------------ segments of many lines

\* the text of k empty lines
LineFeeds(k) == [j \in 1..k |-> "\n"]

\* the lists of one or two segments of empty lines
LineSegmentLists ==
  {<<LineFeeds(k)>> : k \in 0..MaxLines}
    \cup {<<LineFeeds(k), LineFeeds(l)>> : k, l \in 0..MaxLines}

\* the chunk sizes from the one no line fits in to the one two lines fit in
LineChunkSizes == MinChunkSize..(MinChunkSize + 5)

LinesInit ==
  /\ segments \in LineSegmentLists
  /\ chunk_size \in LineChunkSizes
  /\ coded = None
  /\ final = None
  /\ AgentIdle

LinesSpec == LinesInit /\ [][CodecNext]_vars

\* ============================================ agents/segments_agent.py

\* a JSON object is the sequence of its <<key, value>> members in ascending
\* key order, so that equal objects are equal sequences
Keys(d) == {d[j][1] : j \in DOMAIN d}
Lookup(d, k) == (CHOOSE j \in DOMAIN d : d[j][1] = k)

\* what a translation does to a text: every letter is replaced
Translate(t) == [j \in DOMAIN t |-> IF t[j] = "a" THEN "b" ELSE t[j]]

\* the endpoint translated every id of the chunk
Full(chunk) == [j \in DOMAIN chunk |-> <<chunk[j][1], Translate(chunk[j][2])>>]

\* what the content of a 2xx response to a chunk can be: the full
\* translation, the chunk itself, the translation without its last id, the
\* translation with one more id (the id after the chunk's last, or the id
\* before its first, which is an id of the chunk before), or JSON that is no
\* object
Contents(chunk) ==
  { [kind |-> "dict", body |-> Full(chunk)],
    [kind |-> "dict", body |-> chunk],
    [kind |-> "dict", body |-> SubSeq(Full(chunk), 1, Len(chunk) - 1)],
    [kind |-> "dict", body |-> Append(Full(chunk), <<chunk[Len(chunk)][1] + 1, <<"b">>>>)],
    [kind |-> "nondict"] }
  \cup (IF chunk[1][1] > 0
        THEN {[kind |-> "dict", body |-> <<<<chunk[1][1] - 1, <<"c">>>>>> \o Full(chunk)]}
        ELSE {})

\* a final_chunk without the loop over missing_keys
FinalChunkCommonOnly(original_chunk, repaired_result) ==
  LET common == SelectSeq(original_chunk, LAMBDA m : m[1] \in Keys(repaired_result))
  IN [j \in DOMAIN common |->
        <<common[j][1], repaired_result[Lookup(repaired_result, common[j][1])][2]>>]

\* a final_chunk that takes the original text for the common keys as well
FinalChunkKeepsOriginal(original_chunk, repaired_result) ==
  [j \in DOMAIN original_chunk |-> <<original_chunk[j][1], original_chunk[j][2]>>]

\* a final_chunk that also takes the extra keys of the response
FinalChunkWithExtraKeys(original_chunk, repaired_result) ==
  SelectSeq(repaired_result, LAMBDA m : m[1] < original_chunk[1][1])
    \o [j \in DOMAIN original_chunk |->
          LET key == original_chunk[j][1] IN
          IF key \in Keys(repaired_result)
          THEN <<key, repaired_result[Lookup(repaired_result, key)][2]>>
          ELSE <<key, original_chunk[j][2]>>]
    \o SelectSeq(repaired_result, LAMBDA m : m[1] > original_chunk[Len(original_chunk)][1])

\* lines 105-117: final_chunk, the received value of every common key and
\* the original text of every missing key
FinalChunk(original_chunk, repaired_result) ==
  [j \in DOMAIN original_chunk |->
     LET key == original_chunk[j][1] IN
     IF key \in Keys(repaired_result)
     THEN <<key, repaired_result[Lookup(repaired_result, key)][2]>>
     ELSE <<key, original_chunk[j][2]>>]

\* a handler without the comparison of lines 96-97
_result_handler_accepts_echo(result, origin_prompt) ==
  IF result.kind # "dict" THEN [cls |-> "invalid", value |-> None]
  ELSE IF Keys(origin_prompt) # Keys(result.body)
  THEN [cls |-> "partial",
        value |-> [kind |-> "dict", body |-> FinalChunk(origin_prompt, result.body)]]
  ELSE [cls |-> "success", value |-> [kind |-> "dict", body |-> result.body]]

\* SegmentsTranslateAgent._result_handler: [cls, value] where cls is
\* "success", "invalid" (AgentResultError) or "partial" (PartialAgentResultError)
_result_handler(result, origin_prompt) ==
  IF result.kind # "dict" THEN [cls |-> "invalid", value |-> None]
  ELSE IF result.body = origin_prompt THEN [cls |-> "invalid", value |-> None]
  ELSE IF Keys(origin_prompt) # Keys(result.body)
  THEN [cls |-> "partial",
        value |-> [kind |-> "dict", body |-> FinalChunk(origin_prompt, result.body)]]
  ELSE [cls |-> "success", value |-> [kind |-> "dict", body |-> result.body]]

\* the chunk sizes send_segments is run with: the smallest, under which
\* every text of two lines is split, and the largest
SegChunkSizes == {MinChunkSize, MaxChunkSize}

SegSegmentLists == UNION {ListsOf(k, SegMaxTotalLen) : k \in 0..SegMaxSegs}

\* a SegmentsTranslateAgent and the arguments of one send_segments call; the
\* agent is configured with one worker, so the chunks are sent one after
\* another (batches with several workers are those of Spec)
SegInit ==
  /\ segments \in SegSegmentLists
  /\ chunk_size \in SegChunkSizes
  /\ coded = None /\ final = None
  /\ retry = SegMaxRetry
  /\ max_concurrent = 1
  /\ count = 0 /\ max_errors_count = 10 /\ unresolved_error_count = 0
  /\ variant = "sync" /\ prompts = <<>>
  /\ error_result_handler = "segments"
  /\ phase = "idle" /\ results = <<>>
  /\ pc = <<>> /\ retry_count = <<>> /\ best_partial_result = <<>> /\ future = <<>>
  /\ permits = 0 /\ hard_errors = <<>> /\ adds = <<>>
  /\ ended_by = <<>> /\ overtaken = FALSE /\ last_partial = <<>>
  /\ faults = 0
  /\ usages = {NoUsage}
  /\ token_counter = [input_tokens |-> 0, cached_tokens |-> 0, output_tokens |-> 0,
                      reasoning_tokens |-> 0, total_tokens |-> 0]
  /\ extraction_failed = FALSE /\ token_summary = "none"
  /\ sync_run = None /\ async_run = None
  /\ received = None /\ reconciled = None
  /\ NoThreads
  /\ request_of = <<>>
  /\ NoGlossary

\* send_segments lines 151-156: the segments are split and the chunks are
\* handed to send_prompts, which starts the batch
SendSegments ==
  /\ phase = "idle"
  /\ LET c == segments2json_chunks(segments, chunk_size)
         n == Len(c.chunks)
         r == ResetCounters(count, n)
     IN /\ coded' = c
        /\ prompts' = c.chunks
        /\ count' = r.count
        /\ max_errors_count' = r.max_errors_count
        /\ unresolved_error_count' = r.unresolved
        /\ pc' = [i \in 1..n |-> "waiting"]
        /\ retry_count' = [i \in 1..n |-> 0]
        /\ best_partial_result' = [i \in 1..n |-> None]
        /\ future' = [i \in 1..n |-> None]
        /\ hard_errors' = [i \in 1..n |-> FALSE]
        /\ adds' = [i \in 1..n |-> 0]
        /\ ended_by' = [i \in 1..n |-> "none"]
        /\ last_partial' = [i \in 1..n |-> -1]
  /\ permits' = max_concurrent
  /\ overtaken' = FALSE
  /\ results' = <<>>
  /\ phase' = "running"
  /\ faults' = 0
  /\ ResetTokens
  /\ UNCHANGED <<segments, chunk_size, final, config_vars, variant, error_result_handler,
                 usages, twin_vars, recon_vars, lock_vars, glossary_vars>>
  /\ request_of' = [i \in DOMAIN prompts' |-> FirstCall(prompts'[i])]

\* the HTTP call for chunk i comes back: a hard error, an uncaught exception,
\* or a 2xx response whose content goes through _result_handler
RespondSeg(i) ==
  /\ Running
  /\ pc[i] = "sent"
  /\ \/ \E o \in HardOutcomes \cup {"type_error"} :
          /\ faults < SegMaxFaults
          /\ faults' = faults + 1
          /\ IF o = "type_error" THEN AfterUncaught(i) ELSE AfterFailure(i, TRUE, None)
          /\ CountTokens(FALSE)
          /\ UNCHANGED last_partial
     \/ \E content \in Contents(prompts[i]) :
          LET r == _result_handler(content, prompts[i]) IN
          /\ r.cls # "success" => faults < SegMaxFaults
          /\ faults' = IF r.cls = "success" THEN faults ELSE faults + 1
          /\ IF r.cls = "success" THEN AfterSuccess(i, r.value)
             ELSE AfterFailure(i, FALSE, r.value)
          /\ CountTokens(TRUE)
          /\ last_partial' = IF r.cls = "partial"
                             THEN [last_partial EXCEPT ![i] = retry_count[i]]
                             ELSE last_partial
  /\ UNCHANGED <<codec_vars, config_vars, batch_vars, retry_count>>
  /\ UNCHANGED <<usages, token_summary, twin_vars, recon_vars, lock_vars, request_vars, glossary_vars>>

\* send_segments lines 158-185: the chunk results are merged into the copy
\* of indexed_originals and the final list is rebuilt
MergeResults ==
  /\ phase = "returned"
  /\ final = None
  /\ final' = [kind |-> "segments",
               list |-> Rebuild(MergeChunks(coded.js, [i \in DOMAIN results |-> results[i].body]),
                                coded.merged, 0)]
  /\ UNCHANGED <<segments, chunk_size, coded, agent_vars>>

SegNext ==
  \/ SendSegments
  \/ \E i \in Tasks : Acquire(i)
  \/ \E i \in Tasks : RespondSeg(i)
  \/ \E i \in Tasks : Wake(i)
  \/ Return
  \/ RaiseSync
  \/ Drained
  \/ MergeResults

SegSpec == SegInit /\ [][SegNext]_vars

\* ------------------------------------------------ _result_handler alone

\* the objects a response to a chunk can hold: of each id of the chunk
\* nothing, its text translated or its text as sent, and perhaps one id that
\* was not sent (the id after the chunk's last)
RECURSIVE BodiesFrom(_, _)
BodiesFrom(chunk, j) ==
  IF j > Len(chunk)
  THEN {<<>>, <<<<(IF chunk = <<>> THEN 0 ELSE chunk[Len(chunk)][1] + 1), <<"b">>>>>>}
  ELSE LET rest == BodiesFrom(chunk, j + 1)
           key == chunk[j][1]
           val == chunk[j][2]
       IN rest \cup {<<m>> \o r : m \in {<<key, Translate(val)>>, <<key, val>>}, r \in rest}

\* what result_handler can be called with for a chunk: an object, JSON that
\* is no object, or the empty string
Results(chunk) ==
  {[kind |-> "dict", body |-> b] : b \in BodiesFrom(chunk, 1)}
    \cup {[kind |-> "nondict"], [kind |-> "empty"]}

\* a segment list and a chunk size; no batch is run
ReconInit ==
  /\ segments \in SegSegmentLists
  /\ chunk_size \in SegChunkSizes
  /\ coded = None
  /\ final = None
  /\ AgentIdle

\* _result_handler is called with some content for one of the chunks
Reconcile ==
  /\ coded # None
  /\ \E c \in 1..Len(coded.chunks) :
       \E result \in Results(coded.chunks[c]) :
         /\ received' = [result |-> result, origin_prompt |-> coded.chunks[c]]
         /\ reconciled' = _result_handler(result, coded.chunks[c])
  /\ UNCHANGED <<codec_vars, config_vars, counter_vars, task_vars, batch_vars, env_vars,
                 hist_vars, token_vars, twin_vars, lock_vars, request_vars, glossary_vars>>

ReconNext == Split \/ Reconcile

ReconSpec == ReconInit /\ [][ReconNext]_vars

\* ------------------------------------ the locks of the shared counters

\* The requests of a batch of send_prompts, each on its own pool thread,
\* followed through the statements that touch the shared counters.  A thread
\* is [at, step, retry_count, outcome, loaded]:
\*   at      "post" (suspended in client.post), "sleep" (suspended in
\*           time.sleep), "done", or the Lock whose `with` block it is at
\*   step    "wait" before the lock is taken, "in" once it is held, "loaded"
\*           once the counter has been read for the `+=`
\* `x += 1` is a read of x followed by a write of the value read plus one.

Threads == DOMAIN threads

Locks == {"total_error_counter", "token_counter", "unresolved_error"}

Suspended == {"post", "sleep"}

\* the tokens the endpoint reports with each 2xx response
ReportedTokens == <<1, 0, 1, 0>>

\* a Lock that can always be taken
LockFreeAlways(l) == TRUE

\* Lock.acquire: the lock is taken only when no thread holds it
LockFree(l) == locks[l] = 0

\* send lines 611-672: where a failed attempt goes next. A hard error on the
\* first attempt calls total_error_counter.add(); reach_limit() reads the
\* count without the lock
NextAfterFailure(t, is_hard_error) ==
  IF threads[t].retry_count < retry
  THEN IF is_hard_error /\ threads[t].retry_count = 0 THEN "total_error_counter"
       ELSE IF is_hard_error /\ reach_limit(count, max_errors_count) THEN "unresolved_error"
       ELSE "sleep"
  ELSE "unresolved_error"

StepAt(a) == IF a \in Locks THEN "wait" ELSE "none"

\* a fresh agent starts a batch of one prompt per thread
LockInit ==
  /\ segments = <<>> /\ chunk_size = 0 /\ coded = None /\ final = None
  /\ retry \in 0..LockMaxRetry
  /\ max_concurrent = MaxThreads
  /\ \E n \in 1..MaxThreads :
       /\ threads = [t \in 1..n |-> [at |-> "post", step |-> "none", retry_count |-> 0,
                                     outcome |-> "none", loaded |-> 0]]
       /\ max_errors_count = ResetCounters(0, n).max_errors_count
  /\ count = 0 /\ unresolved_error_count = 0
  /\ variant = "sync" /\ prompts = <<>> /\ error_result_handler = "None"
  /\ phase = "idle" /\ results = <<>>
  /\ pc = <<>> /\ retry_count = <<>> /\ best_partial_result = <<>> /\ future = <<>>
  /\ permits = 0 /\ hard_errors = <<>> /\ adds = <<>>
  /\ ended_by = <<>> /\ overtaken = FALSE /\ last_partial = <<>>
  /\ faults = 0
  /\ usages = {NoUsage}
  /\ token_counter = TokenCounter_reset
  /\ extraction_failed = FALSE /\ token_summary = "none"
  /\ sync_run = None /\ async_run = None
  /\ received = None /\ reconciled = None
  /\ locks = [total_error_counter |-> 0, token_counter |-> 0, unresolved_error |-> 0]
  /\ applied = [count |-> 0, total_tokens |-> 0, unresolved_error_count |-> 0]
  /\ request_of = <<>>
  /\ NoGlossary

lock_frame == <<codec_vars, config_vars, max_errors_count, task_vars, batch_vars, env_vars,
                hist_vars, usages, extraction_failed, token_summary, twin_vars, recon_vars,
                request_vars, glossary_vars>>

\* send lines 553-568: client.post returns. A 2xx response goes on to
\* token_counter.add (line 570); a hard error goes to the retry decision
PostReturns(t) ==
  /\ threads[t].at = "post"
  /\ \E o \in {"ok", "soft", "hard"} :
       LET to == IF o = "hard" THEN NextAfterFailure(t, TRUE) ELSE "token_counter"
       IN threads' = [threads EXCEPT ![t].outcome = o, ![t].at = to, ![t].step = StepAt(to)]
  /\ UNCHANGED <<lock_frame, count, unresolved_error_count, token_counter, locks, applied>>

\* `with self.lock:` / `with self.unresolved_error_lock:` is entered
Enter(t, l) ==
  /\ threads[t].at = l /\ threads[t].step = "wait"
  /\ LockFree(l)
  /\ locks' = [locks EXCEPT ![l] = t]
  /\ threads' = [threads EXCEPT ![t].step = "in"]
  /\ UNCHANGED <<lock_frame, count, unresolved_error_count, token_counter, applied>>

\* the read of `+=`
Load(t, l) ==
  /\ threads[t].at = l /\ threads[t].step = "in"
  /\ threads' = [threads EXCEPT ![t].step = "loaded",
                                ![t].loaded = CASE l = "total_error_counter" -> count
                                                [] l = "token_counter" -> token_counter
                                                [] l = "unresolved_error" -> unresolved_error_count]
  /\ UNCHANGED <<lock_frame, count, unresolved_error_count, token_counter, locks, applied>>

\* TotalErrorCounter.add lines 63-66: the write of `self.count += 1`, the
\* value of reach_limit() and the end of the `with` block
StoreCount(t) ==
  /\ threads[t].at = "total_error_counter" /\ threads[t].step = "loaded"
  /\ count' = threads[t].loaded + 1
  /\ applied' = [applied EXCEPT !.count = @ + 1]
  /\ locks' = [locks EXCEPT !.total_error_counter = 0]
  /\ LET to == IF reach_limit(count', max_errors_count) THEN "unresolved_error" ELSE "sleep"
     IN threads' = [threads EXCEPT ![t].at = to, ![t].step = StepAt(to), ![t].loaded = 0]
  /\ UNCHANGED <<lock_frame, unresolved_error_count, token_counter>>

\* TokenCounter.add lines 165-170: the writes of the five sums and the end
\* of the `with` block; then the validator accepts the content (the request
\* returns) or raises a soft error
StoreTokens(t) ==
  /\ threads[t].at = "token_counter" /\ threads[t].step = "loaded"
  /\ token_counter' = TokenCounter_add(threads[t].loaded, ReportedTokens)
  /\ applied' = [applied EXCEPT !.total_tokens = @ + ReportedTokens[1] + ReportedTokens[3]]
  /\ locks' = [locks EXCEPT !.token_counter = 0]
  /\ LET to == IF threads[t].outcome = "ok" THEN "done" ELSE NextAfterFailure(t, FALSE)
     IN threads' = [threads EXCEPT ![t].at = to, ![t].step = StepAt(to), ![t].loaded = 0]
  /\ UNCHANGED <<lock_frame, count, unresolved_error_count>>

\* send lines 618-619, 632-633, 661-662: the write of
\* `self.unresolved_error_count += 1` and the end of the `with` block; the
\* fallback value is returned
StoreUnresolved(t) ==
  /\ threads[t].at = "unresolved_error" /\ threads[t].step = "loaded"
  /\ unresolved_error_count' = threads[t].loaded + 1
  /\ applied' = [applied EXCEPT !.unresolved_error_count = @ + 1]
  /\ locks' = [locks EXCEPT !.unresolved_error = 0]
  /\ threads' = [threads EXCEPT ![t].at = "done", ![t].step = "none", ![t].loaded = 0]
  /\ UNCHANGED <<lock_frame, count, token_counter>>

\* send lines 645-656: time.sleep(0.5) returns and send is called again
SleepReturns(t) ==
  /\ threads[t].at = "sleep"
  /\ threads' = [threads EXCEPT ![t].at = "post", ![t].retry_count = @ + 1,
                                ![t].outcome = "none"]
  /\ UNCHANGED <<lock_frame, count, unresolved_error_count, token_counter, locks, applied>>

LockNext ==
  \/ \E t \in Threads : PostReturns(t)
  \/ \E t \in Threads : \E l \in Locks : Enter(t, l)
  \/ \E t \in Threads : \E l \in Locks : Load(t, l)
  \/ \E t \in Threads : StoreCount(t)
  \/ \E t \in Threads : StoreTokens(t)
  \/ \E t \in Threads : StoreUnresolved(t)
  \/ \E t \in Threads : SleepReturns(t)

LockSpec == LockInit /\ [][LockNext]_vars

\* ============================================ agents/glossary_agent.py

\* A dict is kept as the set of its <<key, value>> pairs; equal dicts are
\* equal sets, whatever the order of insertion.

Srcs == {"s1", "s2"}
Dsts == {"d1", "d2"}

\* the members of a chunk result: a {"src": ..., "dst": ...} object, or an
\* object without these keys
Entries == [kind : {"entry"}, src : Srcs, dst : Dsts] \cup {[kind |-> "other"]}

RECURSIVE EntryLists(_)
EntryLists(n) ==
  IF n = 0 THEN {<<>>}
  ELSE EntryLists(n - 1) \cup {Append(l, e) : l \in {m \in EntryLists(n - 1) : Len(m) = n - 1},
                                              e \in Entries}

\* what send_prompts hands back for a chunk: a list (from _result_handler or
\* _error_result_handler) or something that is no list
ChunkResults ==
  {[kind |-> "list", items |-> l] : l \in EntryLists(MaxEntries)} \cup {[kind |-> "other"]}

RECURSIVE ChunkResultLists(_)
ChunkResultLists(n) ==
  IF n = 0 THEN {<<>>}
  ELSE ChunkResultLists(n - 1)
         \cup {Append(l, c) : l \in {m \in ChunkResultLists(n - 1) : Len(m) = n - 1},
                              c \in ChunkResults}

DictKeys(d) == {p[1] : p \in d}

\* d[k] = v
DictPut(d, k, v) == {p \in d : p[1] # k} \cup {<<k, v>>}

\* a | b: the pairs of b, and the pairs of a whose key b does not have
DictUnion(a, b) == {p \in a : p[1] \notin DictKeys(b)} \cup b

\* lines 90 and 114: {d["src"]: d["dst"] for d in chunk if isinstance(d, dict)
\* and "src" in d and "dst" in d}
RECURSIVE glossary_dict(_, _)
glossary_dict(chunk, d) ==
  IF chunk = <<>> THEN d
  ELSE glossary_dict(Tail(chunk),
                     IF Head(chunk).kind = "entry"
                     THEN DictPut(d, Head(chunk).src, Head(chunk).dst)
                     ELSE d)

\* send_segments lines 85-91: result = glossary_dict | result
RECURSIVE send_segments_loop(_, _)
send_segments_loop(chunks, result) ==
  IF chunks = <<>> THEN result
  ELSE send_segments_loop(Tail(chunks),
         IF Head(chunks).kind # "list" THEN result
         ELSE DictUnion(glossary_dict(Head(chunks).items, {}), result))

\* send_segments_async lines 109-115: result = result | glossary_dict
RECURSIVE send_segments_async_loop(_, _)
send_segments_async_loop(chunks, result) ==
  IF chunks = <<>> THEN result
  ELSE send_segments_async_loop(Tail(chunks),
         IF Head(chunks).kind # "list" THEN result
         ELSE DictUnion(result, glossary_dict(Head(chunks).items, {})))

\* the chunk results of one extraction
GlossaryInit ==
  /\ segments = <<>> /\ chunk_size = 0 /\ coded = None /\ final = None
  /\ retry = 0 /\ max_concurrent = 1
  /\ count = 0 /\ max_errors_count = 10 /\ unresolved_error_count = 0
  /\ variant = "sync" /\ prompts = <<>> /\ error_result_handler = "None"
  /\ phase = "idle" /\ results = <<>>
  /\ pc = <<>> /\ retry_count = <<>> /\ best_partial_result = <<>> /\ future = <<>>
  /\ permits = 0 /\ hard_errors = <<>> /\ adds = <<>>
  /\ ended_by = <<>> /\ overtaken = FALSE /\ last_partial = <<>>
  /\ faults = 0
  /\ usages = {NoUsage}
  /\ token_counter = TokenCounter_reset
  /\ extraction_failed = FALSE /\ token_summary = "none"
  /\ sync_run = None /\ async_run = None
  /\ received = None /\ reconciled = None
  /\ NoThreads
  /\ request_of = <<>>
  /\ translated_chunks \in ChunkResultLists(MaxGlossaryChunks)
  /\ sync_glossary = None
  /\ async_glossary = None

\* GlossaryAgent.send_segments returns
GlossarySync ==
  /\ sync_glossary = None
  /\ sync_glossary' = [kind |-> "dict", items |-> send_segments_loop(translated_chunks, {})]
  /\ UNCHANGED <<codec_vars, config_vars, counter_vars, task_vars, batch_vars, env_vars,
                 hist_vars, token_vars, twin_vars, recon_vars, lock_vars, request_vars,
                 translated_chunks, async_glossary>>

\* GlossaryAgent.send_segments_async returns
GlossaryAsync ==
  /\ async_glossary = None
  /\ async_glossary' = [kind |-> "dict",
                        items |-> send_segments_async_loop(translated_chunks, {})]
  /\ UNCHANGED <<codec_vars, config_vars, counter_vars, task_vars, batch_vars, env_vars,
                 hist_vars, token_vars, twin_vars, recon_vars, lock_vars, request_vars,
                 translated_chunks, sync_glossary>>

GlossaryNext == GlossarySync \/ GlossaryAsync

GlossarySpec == GlossaryInit /\ [][GlossaryNext]_vars

\* ================================================================ claims

FellBack(i) == pc[i] = "done" /\ ended_by[i] \in {"tripped_first", "tripped_retry", "exhausted"}

\* C1: when send_prompts / send_prompts_async returns, the list has exactly one
\* result per prompt and the result at index i is the value request i ended
\* with (a success for prompt i exactly when request i succeeded), whatever
\* order the requests ended in.
C1_ResultsInPromptOrder ==
  phase = "returned" =>
    /\ Len(results) = Len(prompts)
    /\ \A i \in Tasks :
         /\ results[i] = future[i]
         /\ results[i] # None
         /\ results[i].prompt = prompts[i]
         /\ (results[i].kind = "content") = (ended_by[i] = "success")

\* C1 witness: a returned batch of two prompts in which the second request
\* ended before the first
C1_Witness ==
  /\ phase = "returned"
  /\ Len(prompts) >= 2
  /\ overtaken
  /\ results[1] # results[2]

\* C2: a batch never raises: the batch call never leaves by an exception.
C2_BatchNeverRaises == phase \notin {"draining", "raised"}

\* C4: at any moment the number of requests between their first attempt and
\* their end (attempts and retry delays) is at most the concurrency limit.
C4_InFlightBounded ==
  Cardinality({i \in Tasks : pc[i] \in InFlight}) <= max_concurrent

\* C4 witness: the limit is reached, one of the requests in flight is in its
\* retry delay and another request is still waiting at the gate
C4_Witness ==
  /\ Cardinality({i \in Tasks : pc[i] \in InFlight}) = max_concurrent
  /\ \E i \in Tasks : pc[i] = "sleeping"
  /\ \E i \in Tasks : pc[i] = "waiting"

\* C5: when a batch starts (no request has begun yet) the hard-error count is
\* zero.
C5_CountZeroAtBatchStart ==
  (phase = "running" /\ \A i \in Tasks : pc[i] = "waiting") => count = 0

\* C6: once the hard-error ceiling is exceeded, no attempt that comes back is
\* followed by a retry (no request goes from its HTTP call to the retry delay).
C6_NoRetryAfterCeiling ==
  [][\A i \in Tasks :
       (Running /\ reach_limit(count, max_errors_count) /\ pc[i] = "sent")
         => pc'[i] # "sleeping"]_vars

\* C7: a request that has ended after at least one hard error has incremented
\* the hard-error counter exactly once.
C7_OneAddPerHardRequest ==
  \A i \in Tasks : (pc[i] = "done" /\ hard_errors[i]) => adds[i] = 1

\* C8: a request that ended in a terminal fallback (by any of the three
\* fallback returns) returned its accumulated partial result if it has one,
\* otherwise the error handler's value for the prompt if a handler was
\* supplied, otherwise the prompt itself.
C8_FallbackPriority ==
  \A i \in Tasks :
    FellBack(i) =>
      future[i] = IF best_partial_result[i] # None THEN best_partial_result[i]
                  ELSE IF error_result_handler # "None" THEN Handled(prompts[i])
                  ELSE RawPrompt(prompts[i])

\* C8 witness: a request stopped by the tripped budget on a retry returns its
\* partial result although a handler was supplied, and another request fell
\* back to the handler's value
C8_Witness ==
  /\ error_result_handler = "caller"
  /\ \E i \in Tasks : /\ FellBack(i) /\ ended_by[i] = "tripped_retry"
                      /\ future[i].kind = "partial"
  /\ \E i \in Tasks : FellBack(i) /\ future[i].kind = "handled"

\* the ids (keys of the id -> text map) that position p of the input list
\* was given: one id, or the ids start..end-1 of its merge range
RECURSIVE IdsOfFrom(_, _, _, _)
IdsOfFrom(p, ranges, next_pos, next_id) ==
  IF ranges # <<>> /\ Head(ranges)[1] = next_id
  THEN IF p = next_pos THEN Head(ranges)[1]..(Head(ranges)[2] - 1)
       ELSE IdsOfFrom(p, Tail(ranges), next_pos + 1, Head(ranges)[2])
  ELSE IF p = next_pos THEN {next_id}
       ELSE IdsOfFrom(p, ranges, next_pos + 1, next_id + 1)

IdsOf(p) == IdsOfFrom(p, coded.merged, 1, 0)

\* chunk i ended in the error fallback: no success and no partial result
ErrorFallback(i) == FellBack(i) /\ best_partial_result[i] = None

\* every chunk that holds an id of position p ended in the error fallback
PositionFellBack(p) ==
  \A k \in IdsOf(p) : \A i \in Tasks : k \in Keys(prompts[i]) => ErrorFallback(i)

\* C3: whatever the segment list, the chunk size and the behaviour of the
\* endpoint, the list send_segments returns is as long as the input list, and
\* every position whose chunks all ended in the error fallback holds the
\* original text of the segment.
C3_FailedSegmentsKeepOriginal ==
  (final # None /\ phase = "returned") =>
    /\ Len(final.list) = Len(segments)
    /\ \A p \in DOMAIN segments : PositionFellBack(p) => final.list[p] = segments[p]

\* a returned list in which a segment that was split by line fell back while
\* another segment was translated
C3_Witness ==
  /\ final # None /\ phase = "returned"
  /\ coded.merged # <<>>
  /\ \E p \in DOMAIN segments :
       /\ Cardinality(IdsOf(p)) > 1
       /\ PositionFellBack(p)
       /\ final.list[p] = segments[p]
  /\ \E q \in DOMAIN segments : final.list[q] # segments[q]

\* C11: whatever the endpoint returned over the attempts, the dict a chunk
\* ends with (success, partial result or error fallback) has every key of the
\* chunk that was sent.
C11_KeyCompleteness ==
  \A i \in Tasks : pc[i] = "done" => Keys(prompts[i]) \subseteq Keys(future[i].body)

\* a chunk of two ids whose retries ran out and that ended with a partial
\* result: one id translated, the other filled in from the chunk
C11_Witness ==
  /\ phase = "returned"
  /\ \E i \in Tasks :
       /\ Len(prompts[i]) >= 2
       /\ FellBack(i)
       /\ best_partial_result[i] # None
       /\ results[i] = best_partial_result[i]
       /\ results[i].body \notin {prompts[i], Full(prompts[i])}

\* C12: when extract_token_info returned the -1 sentinel for at least one
\* response of a batch, the summary logged at the end of the batch is
\* "extraction failed", whatever usage the other responses reported.
C12_SentinelReported ==
  (phase = "returned" /\ extraction_failed) => token_summary = "extraction_failed"

RECURSIVE SumOf(_)
SumOf(ns) == IF ns = <<>> THEN 0 ELSE Head(ns) + SumOf(Tail(ns))

\* the hard-error count the running batch started with: the count less the
\* increments the requests of this batch made
CountAtStart == count - SumOf(adds)

\* C13: the failures of the other prompts of a batch do not change what a
\* prompt gets: a request that was denied its retry by the error budget would
\* have been denied it by its own hard errors alone.
C13_IsolatedFailureDomains ==
  \A i \in Tasks :
    ended_by[i] \in {"tripped_first", "tripped_retry"} =>
      reach_limit(CountAtStart + adds[i], max_errors_count)

\* C14: for the same prompts and the same outcomes of the attempts, delivered
\* in the same order, send / send_prompts and send_async / send_prompts_async
\* make the same attempts, change and consult the hard-error count in the same
\* way and return the same list.
C14_SyncAsyncAgree == sync_run = async_run

\* both runs have returned; one request was stopped by the error budget and
\* another one succeeded on a retry
C14_Witness ==
  /\ sync_run # None
  /\ sync_run.returned # None
  /\ async_run.returned = sync_run.returned
  /\ sync_run.count > max_errors_count
  /\ sync_run.unresolved_error_count > 0
  /\ \E i \in Tasks : sync_run.retry_count[i] > 0 /\ sync_run.result[i].kind = "content"

\* C15: a request makes at most retry + 1 attempts: its attempt number never
\* passes retry, it never waits for another attempt after attempt number
\* retry, and when it has ended it has returned a success or a fallback value.
C15_AtMostRetryPlusOneAttempts ==
  \A i \in Tasks :
    /\ retry_count[i] <= retry
    /\ pc[i] = "sleeping" => retry_count[i] < retry
    /\ pc[i] = "done" => future[i].kind \in {"content", "partial", "handled", "prompt"}

\* a request that used all its attempts, retry >= 1, and fell back
C15_Witness ==
  \E i \in Tasks :
    /\ retry >= 1
    /\ retry_count[i] = retry
    /\ pc[i] = "done"
    /\ ended_by[i] = "exhausted"

\* C16: while a batch runs the hard-error count never goes down, the ceiling
\* stays what it is, and once the count is above the ceiling it stays above.
C16_BudgetMonotone ==
  [][Running =>
       /\ count' >= count
       /\ max_errors_count' = max_errors_count
       /\ reach_limit(count, max_errors_count) => reach_limit(count', max_errors_count')]_vars

\* a running batch that started below the ceiling, crossed it, and counted a
\* further hard error afterwards
C16_Witness ==
  /\ Running
  /\ CountAtStart = 0
  /\ count >= 2
  /\ reach_limit(count, max_errors_count)

\* C17: as long as no request of the batch has met a hard error, no step
\* changes the hard-error count: soft errors are not counted.
C17_SoftErrorsNotCounted ==
  [][(Running /\ \A i \in Tasks : ~hard_errors'[i]) => count' = count]_vars

\* a returned batch without a hard error in which a request ran out of
\* retries on soft errors
C17_Witness ==
  /\ phase = "returned"
  /\ \A i \in Tasks : ~hard_errors[i]
  /\ \E i \in Tasks : ended_by[i] = "exhausted" /\ retry >= 1
  /\ count = CountAtStart

\* C20: the partial result a request carries is always the one of its latest
\* attempt that raised PartialAgentResultError, whatever errors came after it,
\* and a request that ends without a success after such an attempt returns
\* that partial result.
C20_PartialCarriedOver ==
  \A i \in Tasks :
    /\ last_partial[i] < 0 => best_partial_result[i] = None
    /\ last_partial[i] >= 0 =>
         /\ best_partial_result[i] = PartialOf(prompts[i], last_partial[i])
         /\ FellBack(i) => future[i] = PartialOf(prompts[i], last_partial[i])

\* a request whose first two attempts gave partial results, whose third
\* attempt failed otherwise, and that returned the second partial result
C20_Witness ==
  \E i \in Tasks :
    /\ FellBack(i)
    /\ retry_count[i] = 2
    /\ last_partial[i] = 1
    /\ future[i] = PartialOf(prompts[i], 1)

\* C18: a response that is no object, or whose object equals the chunk that
\* was sent, is always answered with AgentResultError: never a success, never
\* a partial result.
C18_EchoAndNonMappingInvalid ==
  reconciled # None =>
    ((received.result.kind # "dict" \/ received.result.body = received.origin_prompt)
       => (reconciled.cls = "invalid" /\ reconciled.value = None))

\* an echo of a chunk of two ids was rejected
C18_Witness ==
  /\ reconciled # None
  /\ received.result.kind = "dict"
  /\ received.result.body = received.origin_prompt
  /\ Len(received.origin_prompt) >= 2
  /\ reconciled.cls = "invalid"

\* C19: when the keys received differ from the keys sent, the handler raises
\* PartialAgentResultError with an object over exactly the keys sent: the
\* received value for a key of the response, the text sent for a key the
\* response lacks, and no key that was not sent.  When the key sets are equal
\* (and the object is no echo) the object received is the success.
C19_PartialOverSentKeys ==
  (reconciled # None /\ received.result.kind = "dict"
     /\ received.result.body # received.origin_prompt) =>
    LET sent == received.origin_prompt
        got == received.result.body
    IN IF Keys(got) # Keys(sent)
       THEN /\ reconciled.cls = "partial"
            /\ Len(reconciled.value.body) = Len(sent)
            /\ Keys(reconciled.value.body) = Keys(sent)
            /\ \A j \in DOMAIN reconciled.value.body :
                 LET key == reconciled.value.body[j][1]
                     val == reconciled.value.body[j][2]
                 IN IF key \in Keys(got)
                    THEN val = got[Lookup(got, key)][2]
                    ELSE val = sent[Lookup(sent, key)][2]
       ELSE /\ reconciled.cls = "success"
            /\ reconciled.value.body = got

\* a partial result built from a translated id, a missing id and an id that
\* was not sent
C19_Witness ==
  /\ reconciled # None
  /\ received.result.kind = "dict"
  /\ reconciled.cls = "partial"
  /\ \E k \in Keys(received.result.body) : k \notin Keys(received.origin_prompt)
  /\ \E k \in Keys(received.origin_prompt) : k \notin Keys(received.result.body)
  /\ \E j \in DOMAIN received.origin_prompt :
       /\ received.origin_prompt[j][1] \in Keys(received.result.body)
       /\ reconciled.value.body[j][2] # received.origin_prompt[j][2]

\* C21: the ceiling of a batch is len(prompts) // 15 and the count has to
\* become greater than it; in a batch of fewer than 15 prompts, whose ceiling
\* is 0, no request is attempted again after one of its attempts met a hard
\* error.
C21_NoHardErrorRetriedAtCeilingZero ==
  (Running /\ max_errors_count = Len(prompts) \div MAX_REQUESTS_PER_ERROR
           /\ max_errors_count = 0)
    => \A i \in Tasks : hard_errors[i] => pc[i] \notin InFlight

\* the id a split segment was measured with: long_key_estimate when the
\* segment whose sub-segments start at id `start` was reached
EstimateKey(start) == Len(segments) + start

\* C22: the split of an oversized segment is greedy by line: a sub-segment is
\* closed only when the next line does not fit with it, so a sub-segment
\* together with the first line of the sub-segment that follows it in the
\* same segment is over the limit.
C22_GreedyByLine ==
  coded # None =>
    \A r \in DOMAIN coded.merged :
      LET start == coded.merged[r][1]
          end == coded.merged[r][2]
      IN \A j \in (start + 1)..(end - 1) :
           get_json_size(<<<<EstimateKey(start),
                             coded.js[j] \o Head(splitlines(coded.js[j + 1]))>>>>)
             > chunk_size

\* the id at which the segment that id i came from was reached: the start of
\* its merge range, or i itself when the segment gave one id
RangeStart(i) ==
  IF \E r \in DOMAIN coded.merged : coded.merged[r][1] <= i /\ i < coded.merged[r][2]
  THEN (CHOOSE r \in DOMAIN coded.merged :
          coded.merged[r][1] <= i /\ i < coded.merged[r][2])
  ELSE 0 - 1

\* C23: the id a segment or sub-segment is measured with has at least as
\* many characters as the id it receives in the returned id -> text map.
C23_EstimateNeverShorter ==
  coded # None =>
    \A i \in 0..(Len(coded.js) - 1) :
      LET r == RangeStart(i)
          start == IF r = 0 - 1 THEN i ELSE coded.merged[r][1]
      IN StrLen(EstimateKey(start)) >= StrLen(i)

\* the number of ids the ranges r..Len(ranges) cover beyond one per range
RECURSIVE ExtraIds(_, _)
ExtraIds(ranges, r) ==
  IF r > Len(ranges) THEN 0
  ELSE (ranges[r][2] - ranges[r][1] - 1) + ExtraIds(ranges, r + 1)

\* C24: the merge ranges are sorted by start, do not overlap, lie within
\* 0..N for the N ids of the id -> text map, and each covers two or more
\* ids: a segment that gave one sub-segment has no range, so the ids are one
\* per segment plus the further ids of the ranges.
C24_MergeRangesWellFormed ==
  coded # None =>
    /\ \A r \in DOMAIN coded.merged :
         /\ 0 <= coded.merged[r][1]
         /\ coded.merged[r][2] <= Len(coded.js)
         /\ coded.merged[r][2] > coded.merged[r][1] + 1
    /\ \A r \in 1..(Len(coded.merged) - 1) :
         coded.merged[r][2] <= coded.merged[r + 1][1]
    /\ Len(coded.js) = Len(segments) + ExtraIds(coded.merged, 1)

\* two segments split by line, and an oversized segment that gave a single
\* sub-segment and is in no range
C24_Witness ==
  /\ coded # None
  /\ Len(coded.merged) >= 2
  /\ \E i \in 0..(Len(coded.js) - 1) :
       /\ RangeStart(i) = 0 - 1
       /\ get_json_size(<<<<EstimateKey(i), coded.js[i + 1]>>>>) > chunk_size

\* C27: the chunks partition the ids: the members of the chunks, taken
\* chunk after chunk, are exactly the ids 0..N-1 of the id -> text map in
\* increasing order, each with its text; no chunk is empty; an empty segment
\* list gives an empty map, no chunks and no ranges.
C27_ChunksPartitionIds ==
  coded # None =>
    /\ Join(coded.chunks) = [i \in 1..Len(coded.js) |-> <<i - 1, coded.js[i]>>]
    /\ \A c \in DOMAIN coded.chunks : coded.chunks[c] # <<>>
    /\ segments = <<>> => (coded.js = <<>> /\ coded.chunks = <<>> /\ coded.merged = <<>>)

\* a chunk of one id followed by a chunk of two ids or more
C27_Witness ==
  /\ coded # None
  /\ Len(coded.chunks) >= 2
  /\ Len(coded.chunks[1]) = 1
  /\ Len(coded.chunks[Len(coded.chunks)]) >= 2

\* C25: the unresolved-error count is zero when a batch starts and, at every
\* moment of the batch and at its end, equals the number of requests that
\* have ended in a terminal fallback; a request that ends in success adds
\* nothing.
C25_UnresolvedCountsFallbacks ==
  unresolved_error_count = Cardinality({i \in Tasks : FellBack(i)})

\* a returned batch in which one request fell back and the other succeeded
\* on a retry
C25_Witness ==
  /\ phase = "returned"
  /\ unresolved_error_count = 1
  /\ \E i \in Tasks : FellBack(i)
  /\ \E i \in Tasks : pc[i] = "done" /\ ended_by[i] = "success" /\ retry_count[i] > 0

\* C26: every increment of the hard-error count, of the token sums and of
\* the unresolved-error count is made under its lock, and no thread holds a
\* lock while it is suspended in the HTTP call or in the delay before a
\* retry; so each counter holds exactly the increments it was given.
C26_NoLostIncrement ==
  /\ count = applied.count
  /\ token_counter.total_tokens = applied.total_tokens
  /\ unresolved_error_count = applied.unresolved_error_count
  /\ \A t \in Threads :
       /\ threads[t].step = "loaded" => locks[threads[t].at] = t
       /\ threads[t].at \in Suspended => \A l \in Locks : locks[l] # t

\* one thread holds a lock with the counter read while another thread waits
\* for the same lock, after an increment of that counter was already stored
C26_Witness ==
  \E t, u \in Threads :
    /\ t # u
    /\ threads[t].at = "unresolved_error" /\ threads[t].step = "loaded"
    /\ threads[u].at = "unresolved_error" /\ threads[u].step = "wait"
    /\ count > 0

\* C28: every call of send / send_async applies pre_send_handler to the
\* system prompt and prompt it was given, and a retry is given what the
\* previous call built: the request of attempt k carries the handler applied
\* k + 1 times (k + 1 glossary blocks), so a retry does not repeat the
\* request of the first attempt.
C28_HandlerAppliedPerAttempt ==
  \A i \in Tasks :
    pc[i] = "sent" =>
      /\ Len(request_of[i].system_prompt) = retry_count[i] + 1
      /\ \A b \in DOMAIN request_of[i].system_prompt :
           request_of[i].system_prompt[b] = [glossary_for |-> prompts[i]]
      /\ request_of[i].prompt = prompts[i]
      /\ retry_count[i] > 0 =>
           request_of[i] # pre_send_handler(FirstCall(prompts[i]).system_prompt, prompts[i])

\* the second retry of a request is in flight
C28_Witness ==
  \E i \in Tasks : pc[i] = "sent" /\ retry_count[i] = 2 /\ Len(request_of[i].system_prompt) = 3

\* the chunk id k was sent in
ChunkOf(k) == CHOOSE i \in Tasks : k \in Keys(prompts[i])

\* for every id, the value the result of its own chunk has for it, or its
\* original text when that result is no object or lacks the id
OwnValues ==
  [n \in DOMAIN coded.js |->
     LET r == results[ChunkOf(n - 1)]
     IN IF r.kind = "dict" /\ (n - 1) \in Keys(r.body)
        THEN r.body[Lookup(r.body, n - 1)][2]
        ELSE coded.js[n]]

\* C29: in the list send_segments returns, the translation of every id is the
\* one the result of its own chunk gives (or its original text): no chunk
\* result changes an id that was not sent in that chunk, whatever the
\* responses held.
C29_OnlyOwnIdsChange ==
  (final # None /\ phase = "returned") =>
    final.list = Rebuild(OwnValues, coded.merged, 0)

\* a chunk that was twice answered with its full translation and one more
\* id fell back to its partial result, and the chunk before it succeeded
C29_Witness ==
  /\ final # None /\ phase = "returned"
  /\ \E i \in Tasks :
       /\ i > 1
       /\ FellBack(i)
       /\ results[i].kind = "dict"
       /\ results[i].body = Full(prompts[i])
       /\ results[i].body # prompts[i]
       /\ ended_by[i - 1] = "success"
       /\ results[i - 1].body # prompts[i - 1]

\* C30: for the same ordered list of chunk results, send_segments and
\* send_segments_async of GlossaryAgent return the same src -> dst glossary.
C30_SameGlossary ==
  (sync_glossary # None /\ async_glossary # None) => sync_glossary = async_glossary

\* C9: splitting a segment list, leaving the text of every id unchanged and
\* re-assembling with the merge ranges gives back exactly the original list.
C9_RoundTrip == final # None => final.list = segments

\* C9 witness: a round trip through two or more chunks in which one segment
\* was split by line and another segment is empty
C9_Witness ==
  /\ final # None
  /\ coded.merged # <<>>
  /\ Len(coded.chunks) >= 2
  /\ \E i \in 1..Len(segments) : segments[i] = <<>>

\* C10: every emitted chunk with two or more ids serializes to at most
\* max_chunk_bytes.
C10_MultiIdChunkFits ==
  coded # None =>
    \A c \in 1..Len(coded.chunks) :
      Len(coded.chunks[c]) >= 2 => get_json_size(coded.chunks[c]) <= chunk_size

\* C10 witness: a chunk of two ids that fills the limit exactly, followed by
\* a further chunk
C10_Witness ==
  /\ coded # None
  /\ Len(coded.chunks) >= 2
  /\ Len(coded.chunks[1]) >= 2
  /\ get_json_size(coded.chunks[1]) = chunk_size

====
